---- MODULE Spec2Model ----
(***************************************************************************)
(* Model of the sheet list page of stock_tracker (src/static/index.js)     *)
(* and of its settings page (src/unnamed/part_000).                        *)
(*                                                                         *)
(* The page state is the DOM the script reads and writes: the rows of      *)
(* #sheets-table > tbody, the row elements themselves (a removed row is    *)
(* still an element while a callback closure holds it), and the visibility *)
(* of the two banners #notification-add and #notification-edit-sync.       *)
(* Every click handler and every ajax callback is one action; callbacks of *)
(* requests in flight run one at a time, in any order.                     *)
(***************************************************************************)
EXTENDS Integers, Sequences, FiniteSets, Bags, TLC

\* Bounds of the model.
MaxEl == 2          \* row elements one page ever holds (rendered + created)
MaxInflight == 2    \* requests in flight at one time

\* Values the server may send.
Titles == {"t1", "t2"}
ServerTimes == {0, 1}            \* UTC timestamps, in minutes
TzOffsets == {2}                 \* the viewer's offset from UTC, in minutes
                                 \* (at offset 0 the conversion changes nothing)
StatusCodes == {400, 401, 403, 404, 500}

VARIABLES
    rows,         \* sequence of row elements attached to the table body
    dom,          \* row element -> [ssheet_id, title, datetime, wired, utc];
                  \* utc: the timestamp the server last sent for the row
    addShown,     \* #notification-add is visible
    editShown,    \* #notification-edit-sync is visible
    inflight,     \* bag of ajax requests sent and not yet answered
    navigating,   \* location.reload was called; the page is being replaced
    last,         \* the handler or callback that ran last, and what it did
    tz,           \* the viewer's time zone offset
    \* the settings page
    notify,       \* the #notify checkbox is checked
    location,     \* window.location: "settings" or "index"
    posts,        \* bag of settings POST bodies sent and not yet answered
    saved,        \* the setting the server holds
    sdid          \* the settings step that ran last

\* The settings page's state.
svars == <<notify, location, posts, saved, sdid>>

vars == <<rows, dom, addShown, editShown, inflight, navigating, last, tz, svars>>

\* The part of the state the user sees, as one value.
Page == [rows |-> rows, dom |-> dom, add |-> addShown, edit |-> editShown]

----------------------------------------------------------------------------
\* Pure helpers of index.js

\* moment.utc(old_s, format).toDate(), then moment(date).format(format):
\* the text is read as UTC and written as local time, with no zone marker.
convertToLocalDateTime(old_s) == old_s + tz

updateDateTimes(index, datetime_string) == convertToLocalDateTime(datetime_string)

NoAlert == ""

\* The outcome of informUserOfSheetAccessError: a reload or one alert.
informUserOfSheetAccessError_403Reloads(statusCode) ==
    IF statusCode = 401 \/ statusCode = 403
    THEN [reload |-> TRUE, alert |-> NoAlert]
    ELSE [reload |-> FALSE,
          alert |-> IF statusCode = 404 THEN "Sheet was not found."
                    ELSE IF statusCode = 400
                    THEN "Sheet formatted incorrectly. Make sure there are no blank rows and the first row is a header."
                    ELSE "Could not perform operation."]

informUserOfSheetAccessError_404Generic(statusCode) ==
    IF statusCode = 401
    THEN [reload |-> TRUE, alert |-> NoAlert]
    ELSE [reload |-> FALSE,
          alert |-> IF statusCode = 403 THEN "You are not authorized to modify this sheet."
                    ELSE IF statusCode = 400
                    THEN "Sheet formatted incorrectly. Make sure there are no blank rows and the first row is a header."
                    ELSE "Could not perform operation."]

informUserOfSheetAccessError(statusCode) ==
    IF statusCode = 401
    THEN [reload |-> TRUE, alert |-> NoAlert]
    ELSE [reload |-> FALSE,
          alert |-> IF statusCode = 403 THEN "You are not authorized to modify this sheet."
                    ELSE IF statusCode = 404 THEN "Sheet was not found."
                    ELSE IF statusCode = 400
                    THEN "Sheet formatted incorrectly. Make sure there are no blank rows and the first row is a header."
                    ELSE "Could not perform operation."]

----------------------------------------------------------------------------
\* Banner logic, on a page value p

processNotificationsOnLoadOnDelete_AtMostOne(p) ==
    IF Len(p.rows) <= 1 THEN [p EXCEPT !.add = TRUE] ELSE p

processNotificationsOnLoadOnDelete(p) ==
    IF Len(p.rows) = 0 THEN [p EXCEPT !.add = TRUE] ELSE p

processNotificationsOnCreate_EditUpToTwo(p) ==
    [p EXCEPT !.edit = (Len(p.rows) <= 2), !.add = FALSE]

processNotificationsOnCreate_KeepAdd(p) ==
    [p EXCEPT !.edit = (Len(p.rows) = 1)]

processNotificationsOnCreate(p) ==
    [p EXCEPT !.edit = (Len(p.rows) = 1), !.add = FALSE]

processNotificationsOnSync_Recompute(p) == [p EXCEPT !.edit = (Len(p.rows) = 1)]

processNotificationsOnSync(p) == [p EXCEPT !.edit = FALSE]

----------------------------------------------------------------------------
\* DOM operations, on a page value p

\* $(el).find(...).click(handler): one more handler on each control of row e.
wireRowClickHandlers(p, els) ==
    [p EXCEPT !.dom = [e \in DOMAIN p.dom |->
                          IF e \in els THEN [p.dom[e] EXCEPT !.wired = @ + 1]
                          ELSE p.dom[e]]]

\* $(sel).find('.utc-datetime').text(updateDateTimes) over the rows els.
updateRowDateTimes(p, els) ==
    [p EXCEPT !.dom = [e \in DOMAIN p.dom |->
                          IF e \in els
                          THEN [p.dom[e] EXCEPT !.datetime = updateDateTimes(e, @)]
                          ELSE p.dom[e]]]

\* $("#sheets-table tbody").append(row): a new element, last in the table.
NewEl(p) == Cardinality(DOMAIN p.dom) + 1

appendRow_Prepend(p, row) ==
    LET e == NewEl(p)
    IN [p EXCEPT !.rows = <<e>> \o @,
                 !.dom = @ @@ (e :> [ssheet_id |-> row.ssheet_id, title |-> row.title,
                                     datetime |-> row.datetime, wired |-> 0,
                                     utc |-> row.datetime])]

appendRow(p, row) ==
    LET e == NewEl(p)
    IN [p EXCEPT !.rows = Append(@, e),
                 !.dom = @ @@ (e :> [ssheet_id |-> row.ssheet_id, title |-> row.title,
                                     datetime |-> row.datetime, wired |-> 0,
                                     utc |-> row.datetime])]

\* $(row).remove(): detaches the element the closure holds, if attached.
removeRow_First(p, el) ==
    [p EXCEPT !.rows = IF Len(@) = 0 THEN @ ELSE Tail(@)]

removeRow(p, el) ==
    [p EXCEPT !.rows = SelectSeq(@, LAMBDA e : e # el)]

\* row.find('.utc-datetime').text(new_time); title only when 'title' in data.
setRowFields_AllRows(p, el, data) ==
    LET new_time == convertToLocalDateTime(data.datetime)
    IN [p EXCEPT !.dom = [e \in DOMAIN p.dom |->
                             [p.dom[e] EXCEPT !.datetime = new_time,
                                              !.utc = IF e = el THEN data.datetime ELSE @,
                                              !.title = IF "title" \in DOMAIN data /\ e = el
                                                        THEN data.title ELSE @]]]

setRowFields(p, el, data) ==
    LET new_time == convertToLocalDateTime(data.datetime)
    IN [p EXCEPT !.dom[el].datetime = new_time,
                 !.dom[el].utc = data.datetime,
                 !.dom[el].title = IF "title" \in DOMAIN data THEN data.title ELSE @]

----------------------------------------------------------------------------
\* The callbacks, as functions of the page

\* createOnClick's success callback, data['row_to_insert'] = row.
createSuccess_WireAll(p, row) ==
    LET e == NewEl(p)
        p1 == appendRow(p, row)
        p2 == updateRowDateTimes(p1, {e})
        p3 == wireRowClickHandlers(p2, {p1.rows[i] : i \in 1..Len(p1.rows)})
    IN processNotificationsOnCreate(p3)

createSuccess_ConvertAll(p, row) ==
    LET e == NewEl(p)
        p1 == appendRow(p, row)
        p2 == updateRowDateTimes(p1, {p1.rows[i] : i \in 1..Len(p1.rows)})
        p3 == wireRowClickHandlers(p2, {e})
    IN processNotificationsOnCreate(p3)

createSuccess(p, row) ==
    LET e == NewEl(p)
        p1 == appendRow(p, row)
        p2 == updateRowDateTimes(p1, {e})
        p3 == wireRowClickHandlers(p2, {e})
    IN processNotificationsOnCreate(p3)

\* syncSheetOnClick's success callback for the row element el.
syncSuccess(p, el, data) ==
    processNotificationsOnSync(setRowFields(p, el, data))

\* deleteSheetOnClick's success callback for the row element el.
deleteSuccess(p, el) ==
    processNotificationsOnLoadOnDelete(removeRow(p, el))

\* The document ready handler on the markup the server rendered: the rows in
\* order, both banners hidden (the handler only ever shows one).
ready(markup) ==
    LET n == Len(markup)
        p0 == [rows |-> [i \in 1..n |-> i],
               dom |-> [e \in 1..n |-> [ssheet_id |-> markup[e].ssheet_id,
                                         title |-> markup[e].title,
                                         datetime |-> markup[e].datetime,
                                         wired |-> 0,
                                         utc |-> markup[e].datetime]],
               add |-> FALSE, edit |-> FALSE]
        p1 == updateRowDateTimes(p0, 1..n)
        p2 == processNotificationsOnLoadOnDelete(p1)
    IN wireRowClickHandlers(p2, 1..n)

----------------------------------------------------------------------------
\* What the server sends

\* Sheet identifiers are opaque and distinct; the sheet shown by the k-th row
\* element of a page is named 100 + k.
SheetId(k) == 100 + k

RowMarkup(k) ==
    {[ssheet_id |-> SheetId(k), title |-> t, datetime |-> d] :
        t \in Titles, d \in ServerTimes}

RECURSIVE MarkupsOfLen(_)
MarkupsOfLen(n) ==
    IF n = 0 THEN {<<>>}
    ELSE {Append(m, r) : m \in MarkupsOfLen(n - 1), r \in RowMarkup(n)}

Markups == UNION {MarkupsOfLen(n) : n \in 0..MaxEl}

SyncResponses ==
    {[datetime |-> d] : d \in ServerTimes}
        \cup {[datetime |-> d, title |-> t] : d \in ServerTimes, t \in Titles}

NoData == <<>>

Request(kind, el) ==
    [kind |-> kind, el |-> el,
     ssheet_id |-> IF el = 0 THEN 0 ELSE dom[el].ssheet_id]

Did(op, el, status, alert, data) ==
    [op |-> op, el |-> el, status |-> status, alert |-> alert, data |-> data]

Attached == {rows[i] : i \in 1..Len(rows)}

PendingCreates == CopiesIn(Request("create", 0), inflight)

SetPage(p) ==
    /\ rows' = p.rows
    /\ dom' = p.dom
    /\ addShown' = p.add
    /\ editShown' = p.edit

----------------------------------------------------------------------------
\* Initial state: the page right after the document ready handler

Init ==
    /\ tz \in TzOffsets
    /\ \E markup \in Markups :
          LET p == ready(markup)
          IN /\ rows = p.rows
             /\ dom = p.dom
             /\ addShown = p.add
             /\ editShown = p.edit
    /\ inflight = EmptyBag
    /\ navigating = FALSE
    /\ last = Did("ready", 0, 0, NoAlert, NoData)
    /\ notify = FALSE
    /\ location = "index"
    /\ posts = EmptyBag
    /\ saved = FALSE
    /\ sdid = "none"

\* The reloaded page's document ready handler; the old page's requests are gone.
Ready ==
    /\ navigating
    /\ \E markup \in Markups : SetPage(ready(markup))
    /\ inflight' = EmptyBag
    /\ navigating' = FALSE
    /\ last' = Did("ready", 0, 0, NoAlert, NoData)
    /\ UNCHANGED <<tz, svars>>

\* One click runs every handler bound to the control: n requests.
Send(req, n) ==
    /\ BagCardinality(inflight) + n <= MaxInflight
    /\ inflight' = inflight (+) [r \in {req} |-> n]

createOnClick ==
    /\ ~navigating
    /\ Cardinality(DOMAIN dom) + PendingCreates < MaxEl
    /\ Send(Request("create", 0), 1)
    /\ last' = Did("createOnClick", 0, 0, NoAlert, NoData)
    /\ UNCHANGED <<rows, dom, addShown, editShown, navigating, tz, svars>>

visitSheetOnClick ==
    /\ ~navigating
    /\ Attached # {}
    /\ last' = Did("visitSheetOnClick", 0, 0, NoAlert, NoData)
    /\ UNCHANGED <<rows, dom, addShown, editShown, inflight, navigating, tz, svars>>

syncSheetOnClick ==
    /\ ~navigating
    /\ \E el \in Attached :
          /\ Send(Request("sync", el), dom[el].wired)
          /\ last' = Did("syncSheetOnClick", 0, 0, NoAlert, NoData)
    /\ UNCHANGED <<rows, dom, addShown, editShown, navigating, tz, svars>>

deleteSheetOnClick_Optimistic ==
    /\ ~navigating
    /\ \E el \in Attached :
          /\ Send(Request("delete", el), dom[el].wired)
          /\ SetPage(removeRow(Page, el))
          /\ last' = Did("deleteSheetOnClick", 0, 0, NoAlert, NoData)
    /\ UNCHANGED <<navigating, tz, svars>>

deleteSheetOnClick ==
    /\ ~navigating
    /\ \E el \in Attached :
          /\ Send(Request("delete", el), dom[el].wired)
          /\ last' = Did("deleteSheetOnClick", 0, 0, NoAlert, NoData)
    /\ UNCHANGED <<rows, dom, addShown, editShown, navigating, tz, svars>>

Answered(req) ==
    /\ ~navigating
    /\ BagIn(req, inflight)
    /\ inflight' = inflight (-) SetToBag({req})

createOnSuccess ==
    /\ Answered(Request("create", 0))
    /\ \E row \in RowMarkup(NewEl(Page)) :
          SetPage(createSuccess(Page, row))
    /\ last' = Did("createOnSuccess", NewEl(Page), 0, NoAlert, NoData)
    /\ UNCHANGED <<navigating, tz, svars>>

syncOnSuccess ==
    \E req \in BagToSet(inflight) :
       /\ req.kind = "sync"
       /\ Answered(req)
       /\ \E data \in SyncResponses :
             /\ SetPage(syncSuccess(Page, req.el, data))
             /\ last' = Did("syncOnSuccess", req.el, 0, NoAlert, data)
       /\ UNCHANGED <<navigating, tz, svars>>

deleteOnSuccess ==
    \E req \in BagToSet(inflight) :
       /\ req.kind = "delete"
       /\ Answered(req)
       /\ SetPage(deleteSuccess(Page, req.el))
       /\ last' = Did("deleteOnSuccess", req.el, 0, NoAlert, NoData)
       /\ UNCHANGED <<navigating, tz, svars>>

\* An error callback: informUserOfSheetAccessError(xhr['status']) and no more.
OnError(req, op) ==
    /\ Answered(req)
    /\ \E status \in StatusCodes :
          LET out == informUserOfSheetAccessError(status)
          IN /\ navigating' = out.reload
             /\ last' = Did(op, 0, status, out.alert, NoData)
    /\ UNCHANGED <<rows, dom, addShown, editShown, tz, svars>>

createOnError ==
    \E req \in BagToSet(inflight) :
       req.kind = "create" /\ OnError(req, "createOnError")

syncOnError ==
    \E req \in BagToSet(inflight) :
       req.kind = "sync" /\ OnError(req, "syncOnError")

deleteOnError ==
    \E req \in BagToSet(inflight) :
       req.kind = "delete" /\ OnError(req, "deleteOnError")

Next ==
    \/ Ready
    \/ createOnClick
    \/ visitSheetOnClick
    \/ syncSheetOnClick
    \/ deleteSheetOnClick
    \/ createOnSuccess
    \/ syncOnSuccess
    \/ deleteOnSuccess
    \/ createOnError
    \/ syncOnError
    \/ deleteOnError

Spec == Init /\ [][Next]_vars

----------------------------------------------------------------------------
\* The settings page

\* The state of the sheet list page, which the settings page leaves alone.
ivars == <<rows, dom, addShown, editShown, inflight, navigating, last, tz>>

\* The settings page right after its document ready handler: the checkbox
\* as the server rendered it, the sheet list page idle and empty.
SettingsInit ==
    /\ tz \in TzOffsets
    /\ LET p == ready(<<>>)
       IN /\ rows = p.rows
          /\ dom = p.dom
          /\ addShown = p.add
          /\ editShown = p.edit
    /\ inflight = EmptyBag
    /\ navigating = FALSE
    /\ last = Did("ready", 0, 0, NoAlert, NoData)
    /\ saved \in BOOLEAN
    /\ notify = saved
    /\ location = "settings"
    /\ posts = EmptyBag
    /\ sdid = "ready"

\* The user ticks or unticks #notify.
toggleNotify ==
    /\ location = "settings"
    /\ notify' = ~notify
    /\ sdid' = "toggleNotify"
    /\ UNCHANGED <<location, posts, saved, ivars>>

\* $.ajax with no callbacks, then window.location = url_index.
submitOnClick_WaitForResponse ==
    /\ location = "settings"
    /\ BagCardinality(posts) < MaxInflight
    /\ posts' = posts (+) SetToBag({[notify |-> notify]})
    /\ sdid' = "submitOnClick"
    /\ UNCHANGED <<location, notify, saved, ivars>>

submitOnClick ==
    /\ location = "settings"
    /\ BagCardinality(posts) < MaxInflight
    /\ posts' = posts (+) SetToBag({[notify |-> notify]})
    /\ location' = "index"
    /\ sdid' = "submitOnClick"
    /\ UNCHANGED <<notify, saved, ivars>>

cancelOnClick ==
    /\ location = "settings"
    /\ location' = "index"
    /\ sdid' = "cancelOnClick"
    /\ UNCHANGED <<notify, posts, saved, ivars>>

\* The server stores a POST it received; the page has no callback for it.
postSucceeds ==
    \E body \in BagToSet(posts) :
       /\ posts' = posts (-) SetToBag({body})
       /\ saved' = body.notify
       /\ sdid' = "postSucceeds"
       /\ UNCHANGED <<notify, location, ivars>>

\* A POST is lost (network error, server error, aborted by the navigation).
postFails ==
    \E body \in BagToSet(posts) :
       /\ posts' = posts (-) SetToBag({body})
       /\ sdid' = "postFails"
       /\ UNCHANGED <<notify, location, saved, ivars>>

\* The user opens the settings page again; the checkbox shows the stored
\* setting.
openSettings ==
    /\ location = "index"
    /\ location' = "settings"
    /\ notify' = saved
    /\ sdid' = "ready"
    /\ UNCHANGED <<posts, saved, ivars>>

SettingsNext ==
    \/ toggleNotify
    \/ submitOnClick
    \/ cancelOnClick
    \/ postSucceeds
    \/ postFails
    \/ openSettings

SettingsSpec == SettingsInit /\ [][SettingsNext]_vars

----------------------------------------------------------------------------
\* Properties

ClickOps == {"createOnClick", "visitSheetOnClick", "syncSheetOnClick",
             "deleteSheetOnClick"}
SuccessOps == {"createOnSuccess", "syncOnSuccess", "deleteOnSuccess"}
ErrorOps == {"createOnError", "syncOnError", "deleteOnError"}

view == <<rows, dom, addShown, editShown>>

\* C1: when a create success callback has just finished with n rows in the
\* table, n = 1 gives the edit/sync banner shown and the add banner hidden,
\* and n > 1 gives both banners hidden (n = 0 does not occur).
C1_CreateBanners ==
    last.op = "createOnSuccess" =>
        /\ Len(rows) >= 1
        /\ Len(rows) = 1 => editShown /\ ~addShown
        /\ Len(rows) > 1 => ~editShown /\ ~addShown

\* A create that brings the table from 0 rows to 1 after an earlier row was
\* deleted.
C1_Witness ==
    /\ last.op = "createOnSuccess"
    /\ Len(rows) = 1
    /\ Cardinality(DOMAIN dom) = 2
    /\ editShown /\ ~addShown

\* C2: when a delete success callback has just finished with n rows left, the
\* add banner is shown if and only if n = 0.
C2_DeleteBanner ==
    last.op = "deleteOnSuccess" => (addShown <=> Len(rows) = 0)

\* The last of two rows deleted: the add banner appears.
C2_Witness ==
    /\ last.op = "deleteOnSuccess"
    /\ Cardinality(DOMAIN dom) = 2
    /\ Len(rows) = 0
    /\ addShown

\* The banners a pure function of the row count would give.
BannersOf(n) ==
    [add |-> n = 0, edit |-> n = 1]

C4_DeleteRemovesOnlyClicked ==
    [][last'.op = "deleteOnSuccess" =>
          LET el == last'.el
          IN /\ \E req \in BagToSet(inflight) :
                   /\ req.kind = "delete" /\ req.el = el
                   /\ req.ssheet_id = dom[el].ssheet_id
                   /\ inflight' = inflight (-) SetToBag({req})
             /\ rows' = SelectSeq(rows, LAMBDA e : e # el)
             /\ dom' = dom]_vars

\* Row 1 was deleted while row 2, created on this page, stays with a request
\* of its own in flight.
C4_Witness ==
    /\ last.op = "deleteOnSuccess"
    /\ last.el = 1
    /\ rows = <<2>>
    /\ BagCardinality(inflight) > 0

\* C5: a sync success callback changes only the timestamp of the targeted row,
\* and its title only when the response carries one; the rows, their order and
\* every other row's identifier, title and timestamp stay as they were.
C5_SyncTouchesOnlyTarget ==
    [][last'.op = "syncOnSuccess" =>
          LET el == last'.el
              data == last'.data
          IN /\ rows' = rows
             /\ DOMAIN dom' = DOMAIN dom
             /\ \A e \in DOMAIN dom : e # el => dom'[e] = dom[e]
             /\ dom'[el].ssheet_id = dom[el].ssheet_id
             /\ dom'[el].wired = dom[el].wired
             /\ dom'[el].datetime = convertToLocalDateTime(data.datetime)
             /\ dom'[el].title = IF "title" \in DOMAIN data THEN data.title
                                 ELSE dom[el].title]_vars

\* A sync answered without a title, on a table of two rows with different
\* timestamps.
C5_Witness ==
    /\ last.op = "syncOnSuccess"
    /\ "title" \notin DOMAIN last.data
    /\ Len(rows) = 2
    /\ dom[1].datetime # dom[2].datetime

\* C6: informUserOfSheetAccessError gives every status code one outcome: 401
\* a reload and no alert, 403, 404 and 400 their own alert, any other code the
\* generic alert; never an alert and a reload together.
C6_ErrorMapping ==
    last.op \in ErrorOps =>
        /\ last.status = 401 => navigating /\ last.alert = NoAlert
        /\ last.status = 403 =>
              ~navigating /\ last.alert = "You are not authorized to modify this sheet."
        /\ last.status = 404 => ~navigating /\ last.alert = "Sheet was not found."
        /\ last.status = 400 =>
              ~navigating /\ last.alert = "Sheet formatted incorrectly. Make sure there are no blank rows and the first row is a header."
        /\ last.status \notin {400, 401, 403, 404} =>
              ~navigating /\ last.alert = "Could not perform operation."
        /\ ~(navigating /\ last.alert # NoAlert)

\* A sync answered 404.
C6_Witness ==
    /\ last.op = "syncOnError"
    /\ last.status = 404
    /\ last.alert = "Sheet was not found."

\* C7: an error callback with a status other than 401 leaves the rows, their
\* contents and both banners as they were; it shows one alert and does not
\* reload.
C7_ErrorLeavesState ==
    [][(last'.op \in ErrorOps /\ last'.status # 401) =>
          /\ UNCHANGED view
          /\ last'.alert # NoAlert
          /\ ~navigating']_vars

\* A delete refused with 403 while the edit/sync banner is up.
C7_Witness ==
    /\ last.op = "deleteOnError"
    /\ last.status = 403
    /\ Len(rows) = 1
    /\ editShown

\* What the user sees: the rows of the table with their contents, and the
\* banners.
Visible ==
    <<[i \in 1..Len(rows) |-> dom[rows[i]]], addShown, editShown>>

\* C8: once the delete success callback of a row has run (the row element is
\* off the table), no later sync callback for that row changes what the page
\* shows (the rows of the table, a banner), and the row does not come back
\* into the table.
C8_NoSyncAfterDelete ==
    [][~navigating =>
          /\ (last'.op = "syncOnSuccess" /\ last'.el \notin Attached) =>
                Visible' = Visible
          /\ \A e \in DOMAIN dom \ Attached : e \notin Attached']_vars

\* The success callback of an in-flight sync or delete request.
Apply(p, req, data) ==
    IF req.kind = "sync" THEN syncSuccess(p, req.el, data)
    ELSE deleteSuccess(p, req.el)

\* C9: for two in-flight sync/delete requests on two distinct rows, running
\* their success callbacks in either order gives the same rows, row contents
\* and banners.
C9_DistinctRowsCommute ==
    ~navigating =>
        \A r1, r2 \in BagToSet(inflight) :
           (r1.kind # "create" /\ r2.kind # "create" /\ r1.el # r2.el) =>
              \A d1, d2 \in SyncResponses :
                 Apply(Apply(Page, r1, d1), r2, d2)
                    = Apply(Apply(Page, r2, d2), r1, d1)

\* A sync of one row and a delete of the other in flight together.
C9_Witness ==
    /\ ~navigating
    /\ Len(rows) = 2
    /\ \E r1, r2 \in BagToSet(inflight) :
          r1.kind = "sync" /\ r2.kind = "delete" /\ r1.el # r2.el

\* C10: a click only dispatches: it leaves rows, row contents and banners as
\* they were and adds the request; these change only in a success callback
\* (or when a reloaded page is rendered); an error callback takes its request
\* out of flight and sends nothing.
C10_NoOptimisticMutation ==
    [][/\ last'.op \in ClickOps => UNCHANGED view
       /\ view' # view => last'.op \in SuccessOps \cup {"ready"}
       /\ BagCardinality(inflight') > BagCardinality(inflight) =>
             last'.op \in ClickOps \ {"visitSheetOnClick"}
       /\ last'.op \in ErrorOps =>
             /\ inflight' \sqsubseteq inflight
             /\ BagCardinality(inflight') = BagCardinality(inflight) - 1]_vars

\* A delete was clicked and is in flight while its row is still in the table.
C10_Witness ==
    /\ last.op = "deleteSheetOnClick"
    /\ \E req \in BagToSet(inflight) :
          req.kind = "delete" /\ req.el \in Attached

\* C11: a create success callback appends exactly one row, at the end: the
\* rows that were in the table keep their order and contents and all come
\* before the new row.
C11_CreateAppendsLast ==
    [][last'.op = "createOnSuccess" =>
          LET e == last'.el
          IN /\ e \notin DOMAIN dom
             /\ rows' = Append(rows, e)
             /\ DOMAIN dom' = DOMAIN dom \cup {e}
             /\ \A o \in DOMAIN dom : dom'[o] = dom[o]
             /\ inflight' = inflight (-) SetToBag({Request("create", 0)})]_vars

\* A row appended after the one already there, a request of another row
\* still in flight.
C11_Witness ==
    /\ last.op = "createOnSuccess"
    /\ rows = <<1, 2>>
    /\ last.el = 2
    /\ \E req \in BagToSet(inflight) : req.el = 1

\* C13: the add banner and the edit/sync banner are never both visible.
C13_NeverBothBanners ==
    ~(addShown /\ editShown)

\* The success callback of any in-flight request, the server's answer fixed.
RunCallback(p, req) ==
    IF req.kind = "create"
    THEN createSuccess(p, CHOOSE row \in RowMarkup(NewEl(p)) : TRUE)
    ELSE Apply(p, req, CHOOSE d \in SyncResponses : TRUE)

Banners(p) == <<p.add, p.edit>>

\* C14: for in-flight requests that all succeed, the banners reached once
\* their callbacks have run are the same in every order of the callbacks;
\* stated for two of the requests in flight.
C14_BannersOrderIndependent ==
    ~navigating =>
        \A r1, r2 \in BagToSet(inflight) :
           (r1 # r2 \/ CopiesIn(r1, inflight) >= 2) =>
              Banners(RunCallback(RunCallback(Page, r1), r2))
                 = Banners(RunCallback(RunCallback(Page, r2), r1))

\* C15: a sync success callback leaves the edit/sync banner hidden and the
\* add banner as it was.
C15_SyncHidesEditBanner ==
    [][last'.op = "syncOnSuccess" =>
          ~editShown' /\ addShown' = addShown]_vars

\* A sync of the only row of the table has been answered.
C15_Witness ==
    /\ last.op = "syncOnSuccess"
    /\ rows = <<1>>
    /\ last.el = 1
    /\ ~editShown /\ ~addShown

\* C16: every row has each of its handlers bound exactly once, whether it was
\* rendered at load or inserted by a create callback; a click on sync or
\* delete sends exactly one request, carrying that row's identifier, and a
\* click on visit sends none.
C16_OneRequestPerClick ==
    [][/\ \A e \in DOMAIN dom : dom[e].wired = 1
       /\ \A e \in DOMAIN dom' : dom'[e].wired = 1
       /\ last'.op = "visitSheetOnClick" => inflight' = inflight
       /\ last'.op = "createOnClick" =>
             inflight' = inflight (+) SetToBag({Request("create", 0)})
       /\ last'.op = "syncSheetOnClick" =>
             \E el \in Attached :
                inflight' = inflight (+)
                   SetToBag({[kind |-> "sync", el |-> el,
                              ssheet_id |-> dom[el].ssheet_id]})
       /\ last'.op = "deleteSheetOnClick" =>
             \E el \in Attached :
                inflight' = inflight (+)
                   SetToBag({[kind |-> "delete", el |-> el,
                              ssheet_id |-> dom[el].ssheet_id]})]_vars

\* A click on sync of the first of two rows: one request, with its id.
C16_Witness ==
    /\ last.op = "syncSheetOnClick"
    /\ rows = <<1, 2>>
    /\ inflight = SetToBag({[kind |-> "sync", el |-> 1, ssheet_id |-> SheetId(1)]})

\* C17: in every state the add banner is visible exactly when the table has
\* no row.
C17_AddBannerIffEmpty ==
    addShown <=> Len(rows) = 0

\* Both rows of the page deleted while another request is still in flight.
C17_Witness ==
    /\ addShown
    /\ Len(rows) = 0
    /\ Cardinality(DOMAIN dom) = 2
    /\ last.op = "deleteOnSuccess"
    /\ inflight # EmptyBag

\* C18: a delete success callback for a row an earlier delete callback already
\* removed changes nothing: the row stays absent, no other row is removed and
\* the banners are as they were.
C18_DeleteIdempotent ==
    [][(last'.op = "deleteOnSuccess" /\ last'.el \notin Attached) =>
          UNCHANGED view]_vars

\* The first of two deletes of row 1 has succeeded, the second is in flight,
\* and row 2 is in the table.
C18_Witness ==
    /\ last.op = "deleteOnSuccess"
    /\ last.el = 1
    /\ rows = <<2>>
    /\ BagIn([kind |-> "delete", el |-> 1, ssheet_id |-> SheetId(1)], inflight)

\* C19: every timestamp cell shows the value the server last sent for its
\* row, converted from UTC to local time exactly once.
C19_ConvertedOnce ==
    \A e \in DOMAIN dom :
       dom[e].datetime = convertToLocalDateTime(dom[e].utc)

\* A create callback has run on a table that held a row, and a sync has
\* since given that row a new timestamp.
C19_Witness ==
    /\ rows = <<1, 2>>
    /\ last.op = "syncOnSuccess"
    /\ last.el = 1
    /\ dom[1].utc = last.data.datetime
    /\ dom[1].datetime # dom[2].datetime

\* C12: a click on submit sends exactly one POST, whose body is the checkbox
\* value at the click, and sets the location to the index URL in the same
\* step; the later fate of the POST (stored, lost, never answered) changes
\* neither the location nor the checkbox.
C12_SubmitNavigatesAtOnce ==
    [][/\ sdid' = "submitOnClick" =>
             /\ posts' = posts (+) SetToBag({[notify |-> notify]})
             /\ location' = "index"
       /\ sdid' \in {"postSucceeds", "postFails"} =>
             UNCHANGED <<location, notify>>]_vars

\* A POST of the ticked checkbox was lost after the page had moved on to the
\* index; the server still holds the old setting.
C12_Witness ==
    /\ sdid = "postFails"
    /\ location = "index"
    /\ notify /\ ~saved
    /\ posts = EmptyBag

====
